---- MODULE Spec2Model ----
(***************************************************************************)
(* Admin dashboard grid editor: EditableTable, the AdminDashboard handlers *)
(* it is given for the restaurant-details table, and the                   *)
(* restaurant-details route handlers, as a state machine.                  *)
(*                                                                         *)
(* Strings are sequences of one-character strings, so that trim() is       *)
(* computed and not assumed.  A cell key `${id}-${field}` is the pair      *)
(* <<id, field>> (ids are fixed-length uuids, so the concatenation is      *)
(* injective).  A missing key of cellValues / newRow reads as "" in the    *)
(* source (`x || ""`, `x?.trim()`), so both maps are total with <<>> for   *)
(* an absent key.                                                          *)
(***************************************************************************)
EXTENDS Integers, Sequences, FiniteSets, TLC

\* ---- bounds ----
MaxCreates == 1
MaxOps == 4
MaxRaceOps == 6

\* ---- strings ----
EmptyStr == <<>>

TypedValues == { <<>>, <<" ">>, <<" ", "b", " ">> }

IsWhiteSpace(c) == c = " "

RECURSIVE trimStart(_)
trimStart(s) ==
  IF s = <<>> THEN s
  ELSE IF IsWhiteSpace(Head(s)) THEN trimStart(Tail(s)) ELSE s

RECURSIVE trimEnd(_)
trimEnd(s) ==
  IF s = <<>> THEN s
  ELSE IF IsWhiteSpace(s[Len(s)]) THEN trimEnd(SubSeq(s, 1, Len(s) - 1)) ELSE s

trim(s) == trimEnd(trimStart(s))

\* JavaScript truthiness of a string, and `s || ""`
Truthy(s) == s # <<>>
OrEmpty(s) == IF Truthy(s) THEN s ELSE EmptyStr

\* ---- schema ----
columns == <<"details", "description">>
Fields == { columns[i] : i \in DOMAIN columns }
allowedFields == {"details", "description"}

getCellKey(id, field) == <<id, field>>

Row(id, details, description) == [id |-> id, details |-> details, description |-> description]
NoRow == Row(0, <<>>, <<>>)
\* the rows the store holds at start, newest first
SeedRows == << Row(2, <<"y">>, <<"y", "y">>), Row(1, <<"x">>, <<"x", "x">>) >>

Ids == 1..(Len(SeedRows) + MaxCreates)
CellKeys == Ids \X Fields
EmptyDraft == [f \in Fields |-> EmptyStr]


VARIABLES
  restaurant_details, \* the restaurant_details table of the store, newest row first
  nextId,          \* next identifier the store assigns
  restaurantDetails, \* AdminDashboard: in-memory collection
  isLoading,       \* AdminDashboard: initial auth check / load not finished
  isAuthenticated, \* AdminDashboard
  isEnglish,       \* language context
  editingCells,    \* EditableTable
  cellValues,      \* EditableTable: pending display values
  loadingCells,    \* EditableTable: cells with a save in flight
  newRow,          \* EditableTable: draft row
  isAddingRow,     \* EditableTable
  inflight,        \* fetch calls issued and not yet settled in the client
  toast,           \* the notice shown last
  messages,        \* ChatForm: the chat log
  input,           \* ChatForm: the text box
  chatIsLoading,   \* ChatForm: isLoading
  sends,           \* ChatForm: sendMessage calls that have not returned
  mounted,         \* ChatForm: the component is on screen
  adminCode,       \* RegisterForm
  password,        \* RegisterForm
  confirmPassword, \* RegisterForm
  registerIsLoading, \* RegisterForm: isLoading
  error,           \* RegisterForm
  success,         \* RegisterForm
  signUps,         \* RegisterForm: supabase.auth.signUp calls, newest last
  initialDataLoaded, \* AdminDashboard
  hasChanges,      \* AdminDashboard
  isSaving,        \* AdminDashboard
  syncs,           \* AdminDashboard: requests to the search-index sync, newest last
  lastCall,        \* the handler step that ran last and how it ended
  ops              \* number of user gestures still to come

vars == << restaurant_details, nextId, restaurantDetails, isLoading, isAuthenticated, isEnglish,
           editingCells, cellValues, loadingCells, newRow, isAddingRow,
           inflight, toast, messages, input, chatIsLoading, sends, mounted,
           adminCode, password, confirmPassword, registerIsLoading, error, success, signUps,
           initialDataLoaded, hasChanges, isSaving, syncs, lastCall, ops >>

storeVars == << restaurant_details, nextId >>
dashVars == << restaurantDetails, isLoading, isAuthenticated >>
cellVars == << editingCells, cellValues, loadingCells >>
draftVars == << newRow, isAddingRow >>
chatVars == << messages, input, chatIsLoading, sends, mounted >>
syncVars == << initialDataLoaded, hasChanges, isSaving, syncs >>
registerVars == << adminCode, password, confirmPassword, registerIsLoading, error, success, signUps >>
gridVars == << storeVars, dashVars, cellVars, draftVars, inflight, toast >>

\* ---- helpers over collections ----
HasId(rows, id) == \E k \in DOMAIN rows : rows[k].id = id
find(rows, id) == rows[CHOOSE k \in DOMAIN rows : rows[k].id = id]
IdsOf(rows) == { rows[k].id : k \in DOMAIN rows }

RemoveAt(s, i) == SubSeq(s, 1, i - 1) \o SubSeq(s, i + 1, Len(s))

\* the effect that re-initialises cellValues from data
initialValues(data) ==
  [ key \in CellKeys |->
      IF HasId(data, key[1]) THEN OrEmpty(find(data, key[1])[key[2]]) ELSE EmptyStr ]

Toast(description, variant) ==
  [ english |-> isEnglish, description |-> description, variant |-> variant ]
NoToast == [ english |-> TRUE, description |-> "none", variant |-> "none" ]

Call(op, id, field, value, result) ==
  [ op |-> op, id |-> id, field |-> field, value |-> value, result |-> result ]

\* session: the caller holds an authenticated session, as the dashboard does
\* whenever it calls a route (checkAuth)
Request(method, id, field, value, body) ==
  [ method |-> method, id |-> id, field |-> field, value |-> value, body |-> body,
    status |-> "sent", data |-> NoRow, session |-> TRUE ]

\* one more user gesture, within the budget
UserStep == ops > 0 /\ ops' = ops - 1

\* the table is on screen
TableShown == ~isLoading /\ isAuthenticated

InitWith(budget) ==
  /\ restaurant_details = SeedRows
  /\ nextId = Len(SeedRows) + 1
  /\ restaurantDetails = <<>>
  /\ isLoading = TRUE
  /\ isAuthenticated = FALSE
  /\ isEnglish = TRUE
  /\ editingCells = {}
  /\ cellValues = [ key \in CellKeys |-> EmptyStr ]
  /\ loadingCells = {}
  /\ newRow = EmptyDraft
  /\ isAddingRow = FALSE
  /\ inflight = <<>>
  /\ toast = NoToast
  /\ messages = <<>>
  /\ input = EmptyStr
  /\ chatIsLoading = FALSE
  /\ sends = <<>>
  /\ mounted = TRUE
  /\ adminCode = ""
  /\ password = EmptyStr
  /\ confirmPassword = EmptyStr
  /\ registerIsLoading = FALSE
  /\ error = ""
  /\ success = ""
  /\ signUps = <<>>
  /\ initialDataLoaded = FALSE
  /\ hasChanges = FALSE
  /\ isSaving = FALSE
  /\ syncs = <<>>
  /\ lastCall = Call("none", 0, "", EmptyStr, "none")
  /\ ops = budget

Init == InitWith(MaxOps)

\* ---- AdminDashboard: checkAuth / loadData ----
GET == restaurant_details

\* the effect "track changes when data is modified", run after a render in
\* which a collection or initialDataLoaded is a new value
trackChanges(loaded) == IF loaded THEN TRUE ELSE hasChanges

checkAuth(session, detailsOk) ==
  /\ isLoading
  /\ UNCHANGED << ops, chatVars, registerVars, isSaving, syncs >>
  /\ initialDataLoaded' = IF session THEN TRUE ELSE initialDataLoaded
  /\ hasChanges' = trackChanges(initialDataLoaded')
  /\ isLoading' = FALSE
  /\ IF session
       THEN /\ isAuthenticated' = TRUE
            /\ restaurantDetails' = IF detailsOk THEN GET ELSE restaurantDetails
       ELSE UNCHANGED << isAuthenticated, restaurantDetails >>
  /\ cellValues' = initialValues(restaurantDetails')
  /\ lastCall' = Call("checkAuth", 0, "", EmptyStr, IF session THEN "loaded" ELSE "redirect")
  /\ UNCHANGED << storeVars, isEnglish, editingCells, loadingCells, draftVars, inflight, toast >>

\* ---- language toggle: AdminDashboard re-renders, menuColumns is a new
\* array, so the cellValues effect of EditableTable runs again ----
toggleLanguage ==
  /\ UserStep
  /\ UNCHANGED << chatVars, registerVars, syncVars >>
  /\ isEnglish' = ~isEnglish
  /\ cellValues' = initialValues(restaurantDetails)
  /\ lastCall' = Call("toggleLanguage", 0, "", EmptyStr, "done")
  /\ UNCHANGED << storeVars, dashVars, editingCells, loadingCells, draftVars, inflight, toast >>

\* ---- EditableTable: what renderCell offers for a cell ----
\* display branch: the click target that starts editing
CanStartEditing(key) == key \notin editingCells
\* editing branch: input, save and cancel buttons, all disabled while loading
CanChange(key) == key \in editingCells /\ key \notin loadingCells
\* fault variant: the save control is not disabled while the cell is loading
CanSaveWhileLoading(key) == key \in editingCells
CanSave(key) == key \in editingCells /\ key \notin loadingCells
CanCancel(key) == key \in editingCells /\ key \notin loadingCells

stopEditing(prev, id, field) == prev \ {getCellKey(id, field)}

\* startEditing: the updater `new Set([...prev, cellKey])`
\* fault variant: the click toggles the mark
addEditingToggled(prev, cellKey) ==
  IF cellKey \in prev THEN prev \ {cellKey} ELSE prev \cup {cellKey}
addEditing(prev, cellKey) == prev \cup {cellKey}

startEditing(id, field) ==
  /\ TableShown
  /\ UserStep
  /\ UNCHANGED << chatVars, registerVars, syncVars >>
  /\ HasId(restaurantDetails, id)
  /\ CanStartEditing(getCellKey(id, field))
  /\ editingCells' = addEditing(editingCells, getCellKey(id, field))
  /\ lastCall' = Call("startEditing", id, field, EmptyStr, "done")
  /\ UNCHANGED << storeVars, dashVars, isEnglish, cellValues, loadingCells, draftVars,
                  inflight, toast >>

\* handleCellChange: the updater `{...prev, [cellKey]: value}`
\* fault variant: the spread of prev is forgotten
setCellValueWithoutSpread(prev, cellKey, value) ==
  [ key \in CellKeys |-> IF key = cellKey THEN value ELSE EmptyStr ]
setCellValue(prev, cellKey, value) == [prev EXCEPT ![cellKey] = value]

handleCellChange(id, field, value) ==
  /\ TableShown
  /\ UserStep
  /\ UNCHANGED << chatVars, registerVars, syncVars >>
  /\ HasId(restaurantDetails, id)
  /\ CanChange(getCellKey(id, field))
  /\ cellValues' = setCellValue(cellValues, getCellKey(id, field), value)
  /\ lastCall' = Call("handleCellChange", id, field, value, "done")
  /\ UNCHANGED << storeVars, dashVars, isEnglish, editingCells, loadingCells, draftVars,
                  inflight, toast >>

\* saveCellValue: `!value.trim()`
\* fault variant: the emptiness test forgets to trim
isBlankWithoutTrim(value) == ~Truthy(value)
isBlank(value) == ~Truthy(trim(value))

\* saveCellValue up to its await: validation, loading mark, the PATCH fetch
saveCellValue(id, field) ==
  LET cellKey == getCellKey(id, field)
      value == OrEmpty(cellValues[cellKey])
  IN /\ TableShown
     /\ UserStep
     /\ UNCHANGED << chatVars, registerVars, syncVars >>
     /\ HasId(restaurantDetails, id)
     /\ CanSave(cellKey)
     /\ IF isBlank(value)
          THEN /\ toast' = Toast("Field cannot be empty", "destructive")
               /\ lastCall' = Call("saveCellValue", id, field, value, "invalid")
               /\ UNCHANGED << loadingCells, inflight >>
          ELSE /\ loadingCells' = loadingCells \cup {cellKey}
               /\ inflight' = Append(inflight, Request("PATCH", id, field, trim(value), EmptyDraft))
               /\ lastCall' = Call("saveCellValue", id, field, trim(value), "pending")
               /\ UNCHANGED toast
     /\ UNCHANGED << storeVars, dashVars, isEnglish, editingCells, cellValues, draftVars >>

\* AdminDashboard.updateRestaurantDetail: the state update on an ok response
\* fault variant: the comparison of the map is inverted
updateRestaurantDetailInverted(prev, id, updatedItem) ==
  [ k \in DOMAIN prev |-> IF prev[k].id # id THEN updatedItem ELSE prev[k] ]

\* fault variant: the updated record is moved to the front of the list
updateRestaurantDetailMovedFirst(prev, id, updatedItem) ==
  <<updatedItem>> \o SelectSeq(prev, LAMBDA item : item.id # id)

\* fault variant: an answer for a record that is no longer listed adds it
updateRestaurantDetailUpsert(prev, id, updatedItem) ==
  IF HasId(prev, id)
    THEN [ k \in DOMAIN prev |-> IF prev[k].id = id THEN updatedItem ELSE prev[k] ]
    ELSE <<updatedItem>> \o prev
updateRestaurantDetail(prev, id, updatedItem) ==
  [ k \in DOMAIN prev |-> IF prev[k].id = id THEN updatedItem ELSE prev[k] ]

\* saveCellValue: the finally block
\* fault variant: the finally block leaves the cell marked
clearLoadingSkipped(prev, cellKey) == prev
clearLoading(prev, cellKey) == prev \ {cellKey}

\* saveCellValue: the awaited call is over, whatever its outcome
\* fault variant: a failed call is issued again
awaitOverRetried(prev, i) ==
  IF prev[i].status = "failed" THEN [prev EXCEPT ![i].status = "sent"] ELSE RemoveAt(prev, i)
awaitOver(prev, i) == RemoveAt(prev, i)

\* saveCellValue after its await (updateRestaurantDetail resolved or threw)
saveCellValueSettled(i) ==
  LET r == inflight[i]
      cellKey == getCellKey(r.id, r.field)
  IN /\ r.method = "PATCH"
     /\ r.status # "sent"
     /\ UNCHANGED << ops, chatVars, registerVars, initialDataLoaded, isSaving, syncs >>
     /\ hasChanges' = IF r.status = "ok" THEN trackChanges(initialDataLoaded) ELSE hasChanges
     /\ inflight' = awaitOver(inflight, i)
     /\ IF r.status = "ok"
          THEN /\ restaurantDetails' = updateRestaurantDetail(restaurantDetails, r.id, r.data)
               /\ cellValues' = initialValues(restaurantDetails')
               /\ editingCells' = stopEditing(editingCells, r.id, r.field)
               /\ toast' = Toast("Updated successfully", "default")
               /\ lastCall' = Call("saveCellValue", r.id, r.field, r.value, "resolved")
          ELSE /\ toast' = Toast("Failed to update", "destructive")
               /\ lastCall' = Call("saveCellValue", r.id, r.field, r.value, "caught")
               /\ UNCHANGED << restaurantDetails, cellValues, editingCells >>
     /\ loadingCells' = clearLoading(loadingCells, cellKey)
     /\ UNCHANGED << storeVars, isLoading, isAuthenticated, isEnglish, draftVars >>

\* cancelEdit: "Reset to original value"
\* fault variant: cancel keeps what was typed
resetToOriginalSkipped(prev, data, id, field) == prev

resetToOriginal(prev, data, id, field) ==
  IF HasId(data, id)
    THEN [prev EXCEPT ![getCellKey(id, field)] = OrEmpty(find(data, id)[field])]
    ELSE prev

cancelEdit(id, field) ==
  LET cellKey == getCellKey(id, field)
  IN /\ TableShown
     /\ UserStep
     /\ UNCHANGED << chatVars, registerVars, syncVars >>
     /\ HasId(restaurantDetails, id)
     /\ CanCancel(cellKey)
     /\ cellValues' = resetToOriginal(cellValues, restaurantDetails, id, field)
     /\ editingCells' = stopEditing(editingCells, id, field)
     /\ lastCall' = Call("cancelEdit", id, field, cellValues[cellKey], "done")
     /\ UNCHANGED << storeVars, dashVars, isEnglish, loadingCells, draftVars, inflight, toast >>

\* ---- EditableTable: draft row ----
beginAddRow ==
  /\ TableShown
  /\ UserStep
  /\ UNCHANGED << chatVars, registerVars, syncVars >>
  /\ ~isAddingRow
  /\ isAddingRow' = TRUE
  /\ lastCall' = Call("beginAddRow", 0, "", EmptyStr, "done")
  /\ UNCHANGED << storeVars, dashVars, isEnglish, cellVars, newRow, inflight, toast >>

handleNewRowChange(field, value) ==
  /\ TableShown
  /\ UserStep
  /\ UNCHANGED << chatVars, registerVars, syncVars >>
  /\ isAddingRow
  /\ newRow' = [newRow EXCEPT ![field] = value]
  /\ lastCall' = Call("handleNewRowChange", 0, field, value, "done")
  /\ UNCHANGED << storeVars, dashVars, isEnglish, cellVars, isAddingRow, inflight, toast >>

\* fault variant: the required-field test forgets to trim
missingFieldsWithoutTrim(row) == { f \in Fields : ~Truthy(row[f]) }
missingFields(row) == { f \in Fields : ~Truthy(trim(row[f])) }

\* addNewRow up to its await: validation, the POST fetch
addNewRow ==
  /\ TableShown
  /\ UserStep
  /\ UNCHANGED << chatVars, registerVars, syncVars >>
  /\ isAddingRow
  /\ IF missingFields(newRow) # {}
       THEN /\ toast' = Toast("Please fill all fields", "destructive")
            /\ lastCall' = Call("addNewRow", 0, "", EmptyStr, "invalid")
            /\ UNCHANGED inflight
       ELSE /\ inflight' = Append(inflight, Request("POST", 0, "", EmptyStr, newRow))
            /\ lastCall' = Call("addNewRow", 0, "", EmptyStr, "pending")
            /\ UNCHANGED toast
  /\ UNCHANGED << storeVars, dashVars, isEnglish, cellVars, draftVars >>

\* AdminDashboard.addRestaurantDetail: the state update on an ok response
\* fault variant: the created record is appended
addRestaurantDetailAppended(prev, newItem) == prev \o <<newItem>>
addRestaurantDetail(prev, newItem) == <<newItem>> \o prev

\* addNewRow after its await (addRestaurantDetail resolved or threw)
addNewRowSettled(i) ==
  LET r == inflight[i]
  IN /\ r.method = "POST"
     /\ r.status # "sent"
     /\ UNCHANGED << ops, chatVars, registerVars, initialDataLoaded, isSaving, syncs >>
     /\ hasChanges' = IF r.status = "ok" THEN trackChanges(initialDataLoaded) ELSE hasChanges
     /\ inflight' = RemoveAt(inflight, i)
     /\ IF r.status = "ok"
          THEN /\ restaurantDetails' = addRestaurantDetail(restaurantDetails, r.data)
               /\ cellValues' = initialValues(restaurantDetails')
               /\ newRow' = EmptyDraft
               /\ isAddingRow' = FALSE
               /\ toast' = Toast("Added successfully", "default")
               /\ lastCall' = Call("addNewRow", r.data.id, "", EmptyStr, "resolved")
          ELSE /\ toast' = Toast("Failed to add", "destructive")
               /\ lastCall' = Call("addNewRow", 0, "", EmptyStr, "caught")
               /\ UNCHANGED << restaurantDetails, cellValues, draftVars >>
     /\ UNCHANGED << storeVars, isLoading, isAuthenticated, isEnglish, editingCells,
                     loadingCells >>

\* fault variant: cancel hides the draft row and keeps what was typed
cancelNewRowKeepsDraft ==
  /\ TableShown
  /\ UserStep
  /\ UNCHANGED << chatVars, registerVars, syncVars >>
  /\ isAddingRow
  /\ isAddingRow' = FALSE
  /\ lastCall' = Call("cancelNewRow", 0, "", newRow["details"], "done")
  /\ UNCHANGED << storeVars, dashVars, isEnglish, cellVars, newRow, inflight, toast >>

cancelNewRow ==
  /\ TableShown
  /\ UserStep
  /\ UNCHANGED << chatVars, registerVars, syncVars >>
  /\ isAddingRow
  /\ newRow' = EmptyDraft
  /\ isAddingRow' = FALSE
  /\ lastCall' = Call("cancelNewRow", 0, "", newRow["details"], "done")
  /\ UNCHANGED << storeVars, dashVars, isEnglish, cellVars, inflight, toast >>

\* ---- delete button: onClick={() => onDelete(item.id)} ----
\* fault variant: the row is removed at the click, before the store answers
onDeleteOptimistic(id) ==
  /\ TableShown
  /\ UserStep
  /\ UNCHANGED << chatVars, registerVars, syncVars >>
  /\ HasId(restaurantDetails, id)
  /\ inflight' = Append(inflight, Request("DELETE", id, "", EmptyStr, EmptyDraft))
  /\ restaurantDetails' = SelectSeq(restaurantDetails, LAMBDA item : item.id # id)
  /\ cellValues' = initialValues(restaurantDetails')
  /\ lastCall' = Call("onDelete", id, "", EmptyStr, "pending")
  /\ UNCHANGED << storeVars, isLoading, isAuthenticated, isEnglish, editingCells,
                  loadingCells, draftVars, toast >>

onDelete(id) ==
  /\ TableShown
  /\ UserStep
  /\ UNCHANGED << chatVars, registerVars, syncVars >>
  /\ HasId(restaurantDetails, id)
  /\ inflight' = Append(inflight, Request("DELETE", id, "", EmptyStr, EmptyDraft))
  /\ lastCall' = Call("onDelete", id, "", EmptyStr, "pending")
  /\ UNCHANGED << storeVars, dashVars, isEnglish, cellVars, draftVars, toast >>

\* AdminDashboard.deleteRestaurantDetail: the state update on an ok response
\* fault variant: the list is fetched again after the delete
deleteRestaurantDetailRefetched(prev, id) == GET
deleteRestaurantDetail(prev, id) == SelectSeq(prev, LAMBDA item : item.id # id)

\* deleteRestaurantDetail after its await; its throw has no handler in the click callback
onDeleteSettled(i) ==
  LET r == inflight[i]
  IN /\ r.method = "DELETE"
     /\ r.status # "sent"
     /\ UNCHANGED << ops, chatVars, registerVars, initialDataLoaded, isSaving, syncs >>
     /\ hasChanges' = IF r.status = "ok" THEN trackChanges(initialDataLoaded) ELSE hasChanges
     /\ inflight' = RemoveAt(inflight, i)
     /\ IF r.status = "ok"
          THEN /\ restaurantDetails' = deleteRestaurantDetail(restaurantDetails, r.id)
               /\ cellValues' = initialValues(restaurantDetails')
               /\ lastCall' = Call("onDelete", r.id, "", EmptyStr, "resolved")
          ELSE /\ lastCall' = Call("onDelete", r.id, "", EmptyStr, "uncaught")
               /\ UNCHANGED << restaurantDetails, cellValues >>
     /\ UNCHANGED << storeVars, isLoading, isAuthenticated, isEnglish, editingCells,
                     loadingCells, draftVars, toast >>

\* ---- route handlers over the store ----
\* response.ok of the fetch API
isOk(code) == code \in 200..299

\* the answer with HTTP status `code` as fetch hands it to the client
\* (response.ok and the body); code 0 is no answer at all
Settle(i, code, data) ==
  [ inflight EXCEPT ![i].status = IF isOk(code) THEN "ok" ELSE "failed", ![i].data = data ]

\* a JSON body without that key
undefined == <<"undefined">>

allowedFieldsFirstOnly(field) == field = columns[1]
allowedFieldsIncludes(field) == field \in allowedFields


\* the HTTP status of the answer of PATCH to request r
PATCHStatus(r, storeError) ==
  IF r.id = 0 \/ r.field = "" \/ r.value = undefined THEN 400
  ELSE IF ~allowedFieldsIncludes(r.field) THEN 400
  ELSE IF storeError \/ ~HasId(restaurant_details, r.id) THEN 500
  ELSE 200

PATCH(i, storeError) ==
  LET r == inflight[i]
      updated == [find(restaurant_details, r.id) EXCEPT ![r.field] = r.value]
      code == PATCHStatus(r, storeError)
  IN /\ r.method = "PATCH"
     /\ r.status = "sent"
     /\ UNCHANGED << ops, chatVars, registerVars, syncVars >>
     /\ IF code = 200
          THEN /\ restaurant_details' = [ k \in DOMAIN restaurant_details |->
                    IF restaurant_details[k].id = r.id THEN updated ELSE restaurant_details[k] ]
               /\ inflight' = Settle(i, code, updated)
               /\ UNCHANGED nextId
          ELSE /\ inflight' = Settle(i, code, NoRow)
               /\ UNCHANGED storeVars
     /\ UNCHANGED << dashVars, isEnglish, cellVars, draftVars, toast, lastCall >>

POST(i, storeError) ==
  LET r == inflight[i]
      created == Row(nextId, r.body.details, r.body.description)
  IN /\ r.method = "POST"
     /\ r.status = "sent"
     /\ UNCHANGED << ops, chatVars, registerVars, syncVars >>
     /\ IF ~Truthy(r.body.details) \/ ~Truthy(r.body.description)
          THEN /\ inflight' = Settle(i, 400, NoRow)
               /\ UNCHANGED storeVars
          ELSE IF storeError \/ nextId \notin Ids
          THEN /\ inflight' = Settle(i, 500, NoRow)
               /\ UNCHANGED storeVars
          ELSE /\ restaurant_details' = <<created>> \o restaurant_details
               /\ nextId' = nextId + 1
               /\ inflight' = Settle(i, 200, created)
     /\ UNCHANGED << dashVars, isEnglish, cellVars, draftVars, toast, lastCall >>

DELETE(i, storeError) ==
  LET r == inflight[i]
  IN /\ r.method = "DELETE"
     /\ r.status = "sent"
     /\ UNCHANGED << ops, chatVars, registerVars, syncVars >>
     /\ IF r.id = 0
          THEN /\ inflight' = Settle(i, 400, NoRow)
               /\ UNCHANGED storeVars
          ELSE IF storeError
          THEN /\ inflight' = Settle(i, 500, NoRow)
               /\ UNCHANGED storeVars
          ELSE /\ restaurant_details' = SelectSeq(restaurant_details, LAMBDA row : row.id # r.id)
               /\ inflight' = Settle(i, 200, NoRow)
               /\ UNCHANGED nextId
     /\ UNCHANGED << dashVars, isEnglish, cellVars, draftVars, toast, lastCall >>

\* fetch rejects: the request or its response is lost
NetworkError(i) ==
  /\ inflight[i].status \in {"sent", "ok"}
  /\ UNCHANGED << ops, chatVars, registerVars, syncVars >>
  /\ inflight' = Settle(i, 0, NoRow)
  /\ UNCHANGED << storeVars, dashVars, isEnglish, cellVars, draftVars, toast, lastCall >>

Next ==
  \/ \E session \in BOOLEAN, detailsOk \in BOOLEAN : checkAuth(session, detailsOk)
  \/ toggleLanguage
  \/ \E id \in Ids, field \in Fields : startEditing(id, field)
  \/ \E id \in Ids, field \in Fields, value \in TypedValues : handleCellChange(id, field, value)
  \/ \E id \in Ids, field \in Fields : saveCellValue(id, field)
  \/ \E i \in DOMAIN inflight : saveCellValueSettled(i)
  \/ \E id \in Ids, field \in Fields : cancelEdit(id, field)
  \/ beginAddRow
  \/ \E field \in Fields, value \in TypedValues : handleNewRowChange(field, value)
  \/ addNewRow
  \/ \E i \in DOMAIN inflight : addNewRowSettled(i)
  \/ cancelNewRow
  \/ \E id \in Ids : onDelete(id)
  \/ \E i \in DOMAIN inflight : onDeleteSettled(i)
  \/ \E i \in DOMAIN inflight, storeError \in BOOLEAN : PATCH(i, storeError)
  \/ \E i \in DOMAIN inflight, storeError \in BOOLEAN : POST(i, storeError)
  \/ \E i \in DOMAIN inflight, storeError \in BOOLEAN : DELETE(i, storeError)
  \/ \E i \in DOMAIN inflight : NetworkError(i)

Spec == Init /\ [][Next]_vars

\* ---- the route handlers called over HTTP by any client ----
\* request.json() / params / searchParams as the handlers receive them; a
\* missing id is 0, a missing field is ""
RequestFields == Fields \cup {"", "id"}
RequestIds == Ids \cup {0}

request(method, id, field, value, body) ==
  /\ UserStep
  /\ inflight = <<>>
  /\ inflight' = <<Request(method, id, field, value, body)>>
  /\ UNCHANGED << storeVars, dashVars, isEnglish, cellVars, draftVars, toast, chatVars, registerVars, syncVars, lastCall >>

\* the NextResponse goes back to that client
respond(i) ==
  /\ inflight[i].status # "sent"
  /\ inflight' = RemoveAt(inflight, i)
  /\ UNCHANGED << storeVars, dashVars, isEnglish, cellVars, draftVars, toast, chatVars, registerVars, syncVars,
                  lastCall, ops >>

RouteNext ==
  \/ \E id \in RequestIds, field \in RequestFields, value \in TypedValues \cup {undefined} :
        request("PATCH", id, field, value, EmptyDraft)
  \/ \E body \in [Fields -> TypedValues] : request("POST", 0, "", EmptyStr, body)
  \/ \E id \in RequestIds : request("DELETE", id, "", EmptyStr, EmptyDraft)
  \/ \E i \in DOMAIN inflight, storeError \in BOOLEAN : PATCH(i, storeError)
  \/ \E i \in DOMAIN inflight, storeError \in BOOLEAN : POST(i, storeError)
  \/ \E i \in DOMAIN inflight, storeError \in BOOLEAN : DELETE(i, storeError)
  \/ \E i \in DOMAIN inflight : respond(i)

RouteSpec == Init /\ [][RouteNext]_vars

\* ---- ChatForm ----
ChatInputs == { <<>>, <<" ">>, <<"q">> }
Responses == { <<>>, <<"O", "p">> }

language == IF isEnglish THEN "en" ELSE "zh-TW"

Message(role, content, isLoadingDots, isStreaming) ==
  [ role |-> role, content |-> content, isLoadingDots |-> isLoadingDots,
    isStreaming |-> isStreaming ]

\* the static text of the catch block, one unit per language
errorContent(currentLanguage) ==
  IF currentLanguage = "en" THEN << "Sorry, an error occurred. Please try again." >>
  ELSE << "zh: error, please try again" >>

\* lib/stream-text: the prefixes of text, shortest first, one per delay
\* fault variant: the generator yields the empty prefix first
streamTextByCharFromEmpty(text) == [ k \in 1..(Len(text) + 1) |-> SubSeq(text, 1, k - 1) ]

streamTextByChar(text) == [ k \in 1..Len(text) |-> SubSeq(text, 1, k) ]

\* the state setters of a component that was unmounted change nothing
setMessages(next) == messages' = IF mounted THEN next ELSE messages
setIsLoading(v) == chatIsLoading' = IF mounted THEN v ELSE chatIsLoading

setInput(v) ==
  /\ mounted
  /\ UserStep
  /\ input' = v
  /\ lastCall' = Call("setInput", 0, "", v, "done")
  /\ UNCHANGED << gridVars, registerVars, syncVars, isEnglish, messages, chatIsLoading, sends, mounted >>

\* sendMessage up to its await: the two appends and the chat fetch
\* the second setMessages updater of sendMessage: `assistantMessageIndex =
\* prev.length`, where prev already holds the user message; as a position
\* counted from 1
\* fault variant: the index is taken before the user message is in the log
assistantMessageIndexStale(prev) == Len(prev)
assistantMessageIndex(prev) == Len(prev) + 1

sendMessage(content, currentLanguage) ==
  /\ mounted
  /\ UserStep
  /\ IF ~Truthy(trim(content))
       THEN /\ lastCall' = Call("sendMessage", 0, "", content, "ignored")
            /\ UNCHANGED << messages, input, chatIsLoading, sends >>
       ELSE /\ messages' = messages \o << Message("user", content, FALSE, FALSE),
                                          Message("assistant", EmptyStr, TRUE, FALSE) >>
            /\ input' = EmptyStr
            /\ chatIsLoading' = TRUE
            /\ sends' = Append(sends, [ assistantMessageIndex |->
                                           assistantMessageIndex(Append(messages, Message("user", content, FALSE, FALSE))),
                                         currentLanguage |-> currentLanguage,
                                         status |-> "sent", response |-> EmptyStr,
                                         shown |-> 0 ])
            /\ lastCall' = Call("sendMessage", Len(messages) + 2, "", content, "pending")
  /\ UNCHANGED << gridVars, registerVars, syncVars, isEnglish, mounted >>

\* the submit button is disabled while loading or when the input is blank
handleSubmit ==
  /\ ~chatIsLoading
  /\ Truthy(trim(input))
  /\ sendMessage(input, language)

\* a key pressed in the text box: Enter without shift sends
handleKeyDown(key, shiftKey) ==
  /\ key = "Enter" /\ ~shiftKey
  /\ sendMessage(input, language)

\* the chat collaborator answers, or the request fails
chat(i, ok, text) ==
  /\ sends[i].status = "sent"
  /\ sends' = [sends EXCEPT ![i].status = IF ok THEN "ok" ELSE "failed",
                            ![i].response = IF ok THEN text ELSE EmptyStr]
  /\ UNCHANGED << gridVars, registerVars, syncVars, isEnglish, messages, input, chatIsLoading, mounted, lastCall, ops >>

\* setMessages updaters of sendMessage, applied to slot k when it exists
\* fault variant: the update goes to the last message of the log
SetSlotLast(prev, k, m) == IF prev # <<>> THEN [prev EXCEPT ![Len(prev)] = m] ELSE prev
SetSlot(prev, k, m) == IF k \in DOMAIN prev THEN [prev EXCEPT ![k] = m] ELSE prev
\* fault variant: the streaming flag is left set after the loop
StopStreamingSkipped(prev, k) == prev

StopStreaming(prev, k) ==
  IF k \in DOMAIN prev THEN [prev EXCEPT ![k].isStreaming = FALSE] ELSE prev

\* `if (!response.ok) throw`: only an ok response reaches response.json()
\* fault variant: the status of the response is not tested
responseOkUnchecked(c) == c.status \in {"ok", "failed"}
responseOk(c) == c.status = "ok"

\* sendMessage after the fetch resolved ok: the slot turns to streaming; an
\* empty response ends the loop at once
sendMessageResponse(i) ==
  LET c == sends[i]
      k == c.assistantMessageIndex
      streaming == SetSlot(messages, k,
                     [ (IF k \in DOMAIN messages THEN messages[k] ELSE Message("assistant", EmptyStr, FALSE, FALSE))
                         EXCEPT !.content = EmptyStr, !.isLoadingDots = FALSE, !.isStreaming = TRUE ])
  IN /\ responseOk(c)
     /\ IF Len(streamTextByChar(c.response)) = 0
          THEN /\ setMessages(StopStreaming(streaming, k))
               /\ sends' = RemoveAt(sends, i)
               /\ setIsLoading(FALSE)
               /\ lastCall' = Call("sendMessage", k, "", EmptyStr, "resolved")
          ELSE /\ setMessages(streaming)
               /\ sends' = [sends EXCEPT ![i].status = "streaming"]
               /\ lastCall' = Call("sendMessage", k, "", EmptyStr, "streaming")
               /\ UNCHANGED chatIsLoading
     /\ UNCHANGED << gridVars, registerVars, syncVars, isEnglish, input, mounted, ops >>

\* one turn of the for-await loop; the last turn also leaves the loop
sendMessagePartial(i) ==
  LET c == sends[i]
      k == c.assistantMessageIndex
      partialText == streamTextByChar(c.response)[c.shown + 1]
      shownNow == SetSlot(messages, k,
                    [ (IF k \in DOMAIN messages THEN messages[k] ELSE Message("assistant", EmptyStr, FALSE, FALSE))
                        EXCEPT !.content = partialText, !.isStreaming = TRUE, !.isLoadingDots = FALSE ])
  IN /\ c.status = "streaming"
     /\ c.shown < Len(streamTextByChar(c.response))
     /\ IF c.shown + 1 = Len(streamTextByChar(c.response))
          THEN /\ setMessages(StopStreaming(shownNow, k))
               /\ sends' = RemoveAt(sends, i)
               /\ setIsLoading(FALSE)
               /\ lastCall' = Call("sendMessage", k, "", partialText, "resolved")
          ELSE /\ setMessages(shownNow)
               /\ sends' = [sends EXCEPT ![i].shown = c.shown + 1]
               /\ lastCall' = Call("sendMessage", k, "", partialText, "streaming")
               /\ UNCHANGED chatIsLoading
     /\ UNCHANGED << gridVars, registerVars, syncVars, isEnglish, input, mounted, ops >>

\* sendMessage after the fetch failed: the catch block, then finally
sendMessageCatch(i) ==
  LET c == sends[i]
      k == c.assistantMessageIndex
      errorMessage == Message("assistant", errorContent(c.currentLanguage), FALSE, FALSE)
  IN /\ c.status = "failed"
     /\ setMessages(IF k \in DOMAIN messages
                       THEN [messages EXCEPT ![k] = errorMessage]
                       ELSE Append(messages, errorMessage))
     /\ sends' = RemoveAt(sends, i)
     /\ setIsLoading(FALSE)
     /\ lastCall' = Call("sendMessage", k, "", EmptyStr, "caught")
     /\ UNCHANGED << gridVars, registerVars, syncVars, isEnglish, input, mounted, ops >>

\* the page is left while calls of sendMessage may still be running;
\* ChatForm registers no cleanup
unmount ==
  /\ mounted
  /\ UserStep
  /\ mounted' = FALSE
  /\ lastCall' = Call("unmount", 0, "", EmptyStr, "done")
  /\ UNCHANGED << gridVars, registerVars, syncVars, isEnglish, messages, input, chatIsLoading, sends >>

ChatNext ==
  \/ \E v \in ChatInputs : setInput(v)
  \/ handleSubmit
  \/ \E shiftKey \in BOOLEAN : handleKeyDown("Enter", shiftKey)
  \/ \E i \in DOMAIN sends, ok \in BOOLEAN, text \in Responses : chat(i, ok, text)
  \/ \E i \in DOMAIN sends : sendMessageResponse(i)
  \/ \E i \in DOMAIN sends : sendMessagePartial(i)
  \/ \E i \in DOMAIN sends : sendMessageCatch(i)
  \/ toggleLanguage
  \/ unmount

ChatSpec == Init /\ [][ChatNext]_vars

\* ---- the admin page and the chat page of the application together ----
AppNext == Next \/ ChatNext

AppSpec == Init /\ [][AppNext]_vars

\* ---- requests in flight at once: a session long enough for two commits
\* after a change, or for a second draft after a cancelled one; every request
\* is answered by the store ----
RaceInit == InitWith(MaxRaceOps)

RaceNext ==
  \/ checkAuth(TRUE, TRUE)
  \/ \E id \in Ids, field \in Fields : startEditing(id, field)
  \/ \E id \in Ids, field \in Fields, value \in TypedValues : handleCellChange(id, field, value)
  \/ \E id \in Ids, field \in Fields : saveCellValue(id, field)
  \/ \E i \in DOMAIN inflight : PATCH(i, FALSE)
  \/ \E i \in DOMAIN inflight : saveCellValueSettled(i)

RaceSpec == RaceInit /\ [][RaceNext]_vars

DraftNext ==
  \/ checkAuth(TRUE, TRUE)
  \/ beginAddRow
  \/ \E field \in Fields, value \in TypedValues : handleNewRowChange(field, value)
  \/ addNewRow
  \/ cancelNewRow
  \/ \E i \in DOMAIN inflight : POST(i, FALSE)
  \/ \E i \in DOMAIN inflight : addNewRowSettled(i)

DraftSpec == RaceInit /\ [][DraftNext]_vars

\* ---- AdminDashboard: the Save Changes button (search-index sync) ----
SyncOutcomes == { "success", "error" }

\* AdminDashboard renders again: restaurantColumns is a new array, and the
\* effect of EditableTable on [data, columns] re-initialises cellValues
rerender(prev) == initialValues(restaurantDetails)

\* fault variant: the guard forgets isSaving
canSaveChangesWhileSaving == hasChanges
\* the guard of handleSaveChanges and of its button
canSaveChanges == ~(~hasChanges \/ isSaving)

handleSaveChanges ==
  /\ UserStep
  /\ TableShown
  /\ canSaveChanges
  /\ isSaving' = TRUE
  /\ syncs' = Append(syncs, [ status |-> "sent" ])
  /\ cellValues' = rerender(cellValues)
  /\ lastCall' = Call("handleSaveChanges", 0, "", EmptyStr, "awaiting")
  /\ UNCHANGED << storeVars, dashVars, isEnglish, editingCells, loadingCells, draftVars,
                  inflight, toast, chatVars, registerVars, initialDataLoaded, hasChanges >>

\* the answer of /updatedb, the rest of the try block, catch and finally
handleSaveChangesSettled(i, outcome) ==
  /\ syncs[i].status = "sent"
  /\ syncs' = [ syncs EXCEPT ![i].status = outcome ]
  /\ IF outcome = "success"
       THEN /\ hasChanges' = FALSE
            /\ toast' = Toast("Database synced successfully!", "default")
       ELSE /\ toast' = Toast("Failed to sync database", "destructive")
            /\ UNCHANGED hasChanges
  /\ isSaving' = FALSE
  /\ cellValues' = rerender(cellValues)
  /\ lastCall' = Call("handleSaveChanges", 0, "", EmptyStr, outcome)
  /\ UNCHANGED << storeVars, dashVars, isEnglish, editingCells, loadingCells, draftVars,
                  inflight, chatVars, registerVars, initialDataLoaded, ops >>

SyncNext ==
  \/ Next
  \/ handleSaveChanges
  \/ \E i \in DOMAIN syncs, outcome \in SyncOutcomes : handleSaveChangesSettled(i, outcome)

SyncSpec == Init /\ [][SyncNext]_vars

\* ---- the busy flags under fair scheduling: every request is answered in
\* the end (by its collaborator or by a network error), and every
\* continuation that can run does run ----
LiveNext ==
  \/ checkAuth(TRUE, TRUE)
  \/ \E id \in Ids, field \in Fields : startEditing(id, field)
  \/ \E id \in Ids, field \in Fields : saveCellValue(id, field)
  \/ \E i \in DOMAIN inflight, storeError \in BOOLEAN : PATCH(i, storeError)
  \/ \E i \in DOMAIN inflight : NetworkError(i)
  \/ \E i \in DOMAIN inflight : saveCellValueSettled(i)
  \/ handleSaveChanges
  \/ \E i \in DOMAIN syncs, outcome \in SyncOutcomes : handleSaveChangesSettled(i, outcome)
  \/ \E v \in ChatInputs : setInput(v)
  \/ handleSubmit
  \/ \E shiftKey \in BOOLEAN : handleKeyDown("Enter", shiftKey)
  \/ \E i \in DOMAIN sends, ok \in BOOLEAN, text \in Responses : chat(i, ok, text)
  \/ \E i \in DOMAIN sends : sendMessageResponse(i)
  \/ \E i \in DOMAIN sends : sendMessagePartial(i)
  \/ \E i \in DOMAIN sends : sendMessageCatch(i)
  \/ unmount

Fairness ==
  /\ WF_vars(\E i \in DOMAIN inflight, storeError \in BOOLEAN : PATCH(i, storeError))
  /\ WF_vars(\E i \in DOMAIN inflight : saveCellValueSettled(i))
  /\ WF_vars(\E i \in DOMAIN syncs, outcome \in SyncOutcomes : handleSaveChangesSettled(i, outcome))
  /\ WF_vars(\E i \in DOMAIN sends, ok \in BOOLEAN, text \in Responses : chat(i, ok, text))
  /\ WF_vars(\E i \in DOMAIN sends : sendMessageResponse(i))
  /\ WF_vars(\E i \in DOMAIN sends : sendMessagePartial(i))
  /\ WF_vars(\E i \in DOMAIN sends : sendMessageCatch(i))

LiveSpec == Init /\ [][LiveNext]_vars /\ Fairness

\* ---- the route handlers called by any caller, signed in or not ----
\* GET of a collection route: the handler takes no request and reads the table
LIST(i, storeError) ==
  /\ inflight[i].method = "GET"
  /\ inflight[i].status = "sent"
  /\ inflight' = Settle(i, IF storeError THEN 500 ELSE 200, NoRow)
  /\ UNCHANGED << storeVars, dashVars, isEnglish, cellVars, draftVars, toast, chatVars,
                  registerVars, syncVars, lastCall, ops >>

callerRequest(session, method, id, field, value, body) ==
  /\ UserStep
  /\ inflight = <<>>
  /\ inflight' = << [ Request(method, id, field, value, body) EXCEPT !.session = session ] >>
  /\ UNCHANGED << storeVars, dashVars, isEnglish, cellVars, draftVars, toast, chatVars,
                  registerVars, syncVars, lastCall >>

CallerNext ==
  \/ \E session \in BOOLEAN : callerRequest(session, "GET", 0, "", EmptyStr, EmptyDraft)
  \/ \E session \in BOOLEAN, id \in Ids, field \in Fields, value \in TypedValues :
        callerRequest(session, "PATCH", id, field, value, EmptyDraft)
  \/ \E session \in BOOLEAN, body \in [Fields -> TypedValues] :
        callerRequest(session, "POST", 0, "", EmptyStr, body)
  \/ \E session \in BOOLEAN, id \in Ids : callerRequest(session, "DELETE", id, "", EmptyStr, EmptyDraft)
  \/ \E i \in DOMAIN inflight, storeError \in BOOLEAN : LIST(i, storeError)
  \/ \E i \in DOMAIN inflight, storeError \in BOOLEAN : PATCH(i, storeError)
  \/ \E i \in DOMAIN inflight, storeError \in BOOLEAN : POST(i, storeError)
  \/ \E i \in DOMAIN inflight, storeError \in BOOLEAN : DELETE(i, storeError)
  \/ \E i \in DOMAIN inflight : respond(i)

CallerSpec == Init /\ [][CallerNext]_vars

\* ---- RegisterForm (components/auth/register-form.tsx) ----
MinPasswordLength == 6

AdminCodes == { "", "12345", "123456" }
Passwords ==
  { <<"s", "e", "c", "r", "e">>,
    <<"s", "e", "c", "r", "e", "t">>,
    <<"s", "e", "c", "r", "e", "T">> }
SignUpOutcomes == { "user", "noUser", "error", "thrown" }

\* everything outside the register form
restVars == << gridVars, chatVars, syncVars, isEnglish >>

setAdminCode(v) ==
  /\ UserStep
  /\ adminCode' = v
  /\ lastCall' = Call("setAdminCode", 0, "", EmptyStr, "done")
  /\ UNCHANGED << restVars, password, confirmPassword, registerIsLoading, error, success, signUps >>

setPassword(v) ==
  /\ UserStep
  /\ password' = v
  /\ lastCall' = Call("setPassword", 0, "", v, "done")
  /\ UNCHANGED << restVars, adminCode, confirmPassword, registerIsLoading, error, success, signUps >>

setConfirmPassword(v) ==
  /\ UserStep
  /\ confirmPassword' = v
  /\ lastCall' = Call("setConfirmPassword", 0, "", v, "done")
  /\ UNCHANGED << restVars, adminCode, password, registerIsLoading, error, success, signUps >>

\* the three tests of handleSubmit, in the order of the code
adminCodeOkWhenEmpty(code) == code = "123456" \/ code = ""
adminCodeOk(code) == code = "123456"
passwordsMatch == password = confirmPassword
passwordLongEnough == ~(Len(password) < MinPasswordLength)

\* handleSubmit of the register form; the submit button is disabled while isLoading
registerSubmit ==
  /\ UserStep
  /\ ~registerIsLoading
  /\ success' = ""
  /\ IF ~adminCodeOk(adminCode)
       THEN /\ error' = "Invalid admin code"
            /\ lastCall' = Call("registerSubmit", 0, "", password, "invalidCode")
            /\ UNCHANGED << registerIsLoading, signUps >>
     ELSE IF ~passwordsMatch
       THEN /\ error' = "Passwords do not match"
            /\ lastCall' = Call("registerSubmit", 0, "", password, "mismatch")
            /\ UNCHANGED << registerIsLoading, signUps >>
     ELSE IF ~passwordLongEnough
       THEN /\ error' = "Password must be at least 6 characters long"
            /\ lastCall' = Call("registerSubmit", 0, "", password, "tooShort")
            /\ UNCHANGED << registerIsLoading, signUps >>
     ELSE /\ error' = ""
          /\ registerIsLoading' = TRUE
          /\ signUps' = Append(signUps, [ password |-> password, status |-> "sent" ])
          /\ lastCall' = Call("registerSubmit", 0, "", password, "signUp")
  /\ UNCHANGED << restVars, adminCode, password, confirmPassword >>

\* the answer of supabase.auth.signUp, the rest of the try block, catch and finally
signUpSettled(i, outcome) ==
  /\ signUps[i].status = "sent"
  /\ signUps' = [ signUps EXCEPT ![i].status = outcome ]
  /\ error' = CASE outcome = "error" -> "error.message"
                [] outcome = "thrown" -> "An unexpected error occurred"
                [] OTHER -> error
  /\ success' = IF outcome = "user" THEN "Registration successful" ELSE success
  /\ registerIsLoading' = FALSE
  /\ lastCall' = Call("signUpSettled", 0, "", signUps[i].password, outcome)
  /\ UNCHANGED << restVars, adminCode, password, confirmPassword, ops >>

RegisterNext ==
  \/ \E v \in AdminCodes : setAdminCode(v)
  \/ \E v \in Passwords : setPassword(v)
  \/ \E v \in Passwords : setConfirmPassword(v)
  \/ registerSubmit
  \/ \E i \in DOMAIN signUps, outcome \in SignUpOutcomes : signUpSettled(i, outcome)

RegisterSpec == Init /\ [][RegisterNext]_vars

\* ---- properties ----
\* this step ran a handler on a user gesture
UserGesture == ops' # ops
\* this step ran the continuation of the fetch at position i
Settled(i) == inflight' = RemoveAt(inflight, i)
\* this step is handler op called on (id, field) by the user
Called(op, id, field) ==
  UserGesture /\ lastCall'.op = op /\ lastCall'.id = id /\ lastCall'.field = field

IsAfter(op, result) == lastCall.op = op /\ lastCall.result = result
LastKey == <<lastCall.id, lastCall.field>>

\* C1: a commit whose trimmed pending value V is not empty sends V to the
\* update operation; when that update succeeds, the field of the record in
\* the in-memory collection equals V and the cell is neither editing nor
\* saving (a record deleted in the meantime has no field to speak of).
C1_CommitSuccess ==
  [][ /\ \A id \in Ids, field \in Fields :
           ( Called("saveCellValue", id, field) /\ trim(cellValues[<<id, field>>]) # <<>> )
           => inflight' = Append(inflight,
                 Request("PATCH", id, field, trim(cellValues[<<id, field>>]), EmptyDraft))
      /\ \A i \in DOMAIN inflight :
           ( inflight[i].method = "PATCH" /\ inflight[i].status = "ok" /\ Settled(i) )
           => /\ <<inflight[i].id, inflight[i].field>> \notin editingCells'
              /\ <<inflight[i].id, inflight[i].field>> \notin loadingCells'
              /\ HasId(restaurantDetails', inflight[i].id)
                   => find(restaurantDetails', inflight[i].id)[inflight[i].field]
                        = inflight[i].value
    ]_vars

C1_Witness ==
  /\ IsAfter("saveCellValue", "resolved")
  /\ lastCall.value = <<"b">>
  /\ HasId(restaurantDetails, lastCall.id)
  /\ find(restaurantDetails, lastCall.id)[lastCall.field] = <<"b">>
  /\ LastKey \notin editingCells
  /\ LastKey \notin loadingCells

\* C2: a commit with an empty or whitespace-only pending value issues no
\* request, shows the validation error, leaves the cell editing and leaves
\* the collection and the store as they were.
C2_BlankCommitRejected ==
  [][ \A id \in Ids, field \in Fields :
        ( Called("saveCellValue", id, field) /\ trim(cellValues[<<id, field>>]) = <<>> )
        => /\ inflight' = inflight
           /\ toast'.variant = "destructive"
           /\ toast'.description = "Field cannot be empty"
           /\ <<id, field>> \in editingCells'
           /\ <<id, field>> \notin loadingCells'
           /\ restaurantDetails' = restaurantDetails
           /\ restaurant_details' = restaurant_details
    ]_vars

C2_Witness ==
  /\ IsAfter("saveCellValue", "invalid")
  /\ cellValues[LastKey] = <<" ">>
  /\ LastKey \in editingCells
  /\ toast.description = "Field cannot be empty"
  /\ inflight = <<>>

\* C3: no cell ever has two update requests outstanding, and a cell with an
\* outstanding update is marked loading, which disables its save control.
InFlightCommits(key) ==
  { i \in DOMAIN inflight :
      inflight[i].method = "PATCH" /\ <<inflight[i].id, inflight[i].field>> = key }

C3_OneCommitPerCell ==
  \A key \in CellKeys :
    /\ Cardinality(InFlightCommits(key)) <= 1
    /\ InFlightCommits(key) # {} => key \in loadingCells

C3_Witness ==
  \E key \in CellKeys :
    /\ Cardinality(InFlightCommits(key)) = 1
    /\ key \in editingCells
    /\ HasId(restaurantDetails, key[1])
    /\ ops > 0

\* C4: cancelEdit puts the pending value of the cell back to the current
\* value of the record field, whatever was typed, clears editing and issues
\* no request.
C4_CancelRestores ==
  [][ \A id \in Ids, field \in Fields :
        Called("cancelEdit", id, field)
        => /\ <<id, field>> \notin editingCells'
           /\ HasId(restaurantDetails', id)
           /\ cellValues'[<<id, field>>] = find(restaurantDetails', id)[field]
           /\ inflight' = inflight
           /\ restaurantDetails' = restaurantDetails
           /\ restaurant_details' = restaurant_details
    ]_vars

C4_Witness ==
  /\ IsAfter("cancelEdit", "done")
  /\ lastCall.value # cellValues[LastKey]
  /\ cellValues[LastKey] = find(restaurantDetails, lastCall.id)[lastCall.field]
  /\ LastKey \notin editingCells

\* C5: when the update of a commit fails, the cell is no longer saving, is
\* still editing, the error notice is shown and the collection is unchanged.
C5_CommitFailure ==
  [][ \A i \in DOMAIN inflight :
        ( inflight[i].method = "PATCH" /\ inflight[i].status = "failed" /\ Settled(i) )
        => /\ <<inflight[i].id, inflight[i].field>> \notin loadingCells'
           /\ <<inflight[i].id, inflight[i].field>> \in editingCells'
           /\ toast'.variant = "destructive"
           /\ toast'.description = "Failed to update"
           /\ restaurantDetails' = restaurantDetails
    ]_vars

C5_Witness ==
  /\ IsAfter("saveCellValue", "caught")
  /\ LastKey \in editingCells
  /\ LastKey \notin loadingCells
  /\ toast.description = "Failed to update"

\* C6: a record leaves the in-memory collection only in the step that
\* receives the ok answer of a delete for its id; a failed delete leaves the
\* collection exactly as it was.
C6_NoOptimisticDelete ==
  [][ /\ \A id \in Ids :
           ( HasId(restaurantDetails, id) /\ ~HasId(restaurantDetails', id) )
           => \E i \in DOMAIN inflight :
                /\ inflight[i].method = "DELETE" /\ inflight[i].id = id
                /\ inflight[i].status = "ok" /\ Settled(i)
      /\ \A i \in DOMAIN inflight :
           ( inflight[i].method = "DELETE" /\ inflight[i].status = "failed" /\ Settled(i) )
           => restaurantDetails' = restaurantDetails
    ]_vars

C6_Witness ==
  /\ IsAfter("onDelete", "uncaught")
  /\ HasId(restaurantDetails, lastCall.id)
  /\ Len(restaurantDetails) = Len(SeedRows)

\* C7: when the delete request fails, an error notice is shown.
C7_DeleteFailureNotice ==
  [][ \A i \in DOMAIN inflight :
        ( inflight[i].method = "DELETE" /\ inflight[i].status = "failed" /\ Settled(i) )
        => toast'.variant = "destructive"
    ]_vars

\* C8: every failed collaborator call of a commit, an add, a delete or a
\* chat send is caught by the operation that made it and turned into
\* something the user sees: a notice for the grid, the error message in the
\* log for the chat (while the chat is on screen).
C8_FailuresCaught ==
  [][ /\ \A i \in DOMAIN inflight :
           ( inflight[i].status = "failed" /\ Settled(i) )
           => lastCall'.result = "caught" /\ toast'.variant = "destructive"
      /\ \A i \in DOMAIN sends :
           ( mounted /\ sends[i].status = "failed" /\ sends' = RemoveAt(sends, i) )
           => /\ lastCall'.result = "caught"
              /\ sends[i].assistantMessageIndex \in DOMAIN messages'
              /\ messages'[sends[i].assistantMessageIndex].content
                   = errorContent(sends[i].currentLanguage)
    ]_vars

\* C9: confirming a draft in which some schema field is missing or
\* whitespace-only issues no create request, shows the validation error,
\* keeps the draft and its values, and adds nothing to the collection.
C9_IncompleteDraftRejected ==
  [][ ( UserGesture /\ lastCall'.op = "addNewRow"
        /\ \E f \in Fields : trim(newRow[f]) = <<>> )
      => /\ inflight' = inflight
         /\ toast'.variant = "destructive"
         /\ toast'.description = "Please fill all fields"
         /\ newRow' = newRow
         /\ isAddingRow'
         /\ restaurantDetails' = restaurantDetails
    ]_vars

C9_Witness ==
  /\ IsAfter("addNewRow", "invalid")
  /\ isAddingRow
  /\ newRow["details"] = <<" ", "b", " ">>
  /\ newRow["description"] = <<" ">>
  /\ inflight = <<>>

\* C10: when the create request of a valid draft succeeds, the created
\* record, carrying the identifier the store assigned and the values of the
\* draft, is the first element of the collection, the records that were
\* there follow in their order, the draft is empty and add mode is off.
C10_CreatedRecordPrepended ==
  [][ \A i \in DOMAIN inflight :
        ( inflight[i].method = "POST" /\ inflight[i].status = "ok" /\ Settled(i) )
        => /\ restaurantDetails' = <<inflight[i].data>> \o restaurantDetails
           /\ inflight[i].data.id \in Ids \ IdsOf(restaurantDetails)
           /\ \A f \in Fields : inflight[i].data[f] = inflight[i].body[f]
           /\ newRow' = EmptyDraft
           /\ ~isAddingRow'
    ]_vars

C10_Witness ==
  /\ IsAfter("addNewRow", "resolved")
  /\ Len(restaurantDetails) = Len(SeedRows) + 1
  /\ Head(restaurantDetails).id = lastCall.id
  /\ Tail(restaurantDetails) = SeedRows
  /\ newRow = EmptyDraft
  /\ ~isAddingRow

\* C11: the step that receives the ok answer of a commit on record R leaves
\* the number of records, their order and every record other than R as they
\* were in the in-memory collection.
C11_CommitChangesOnlyRecord ==
  [][ \A i \in DOMAIN inflight :
        ( inflight[i].method = "PATCH" /\ inflight[i].status = "ok" /\ Settled(i) )
        => /\ Len(restaurantDetails') = Len(restaurantDetails)
           /\ \A k \in DOMAIN restaurantDetails :
                /\ restaurantDetails'[k].id = restaurantDetails[k].id
                /\ restaurantDetails[k].id # inflight[i].id
                     => restaurantDetails'[k] = restaurantDetails[k]
    ]_vars

C11_Witness ==
  /\ IsAfter("saveCellValue", "resolved")
  /\ lastCall.id = 1
  /\ Len(restaurantDetails) = Len(SeedRows)
  /\ restaurantDetails[1] = SeedRows[1]
  /\ restaurantDetails[2].id = 1
  /\ restaurantDetails[2] # SeedRows[2]

\* C12: no row of the store ever holds an empty or whitespace-only value in
\* a schema field, whichever request reached the route handlers.
C12_EmptyNeverPersisted ==
  \A k \in DOMAIN restaurant_details, f \in Fields :
    trim(restaurant_details[k][f]) # <<>>

\* this step is a step of the sendMessage call at position i
Stepped(i) ==
  \/ sends' = RemoveAt(sends, i)
  \/ Len(sends') = Len(sends) /\ sends'[i] # sends[i]

\* C13: the reveal of a response S puts exactly Len(S) prefixes of S into
\* the message, the k-th of length k, one after the other, and ends with
\* the one equal to S; the reveal of the empty response yields nothing
\* (while the chat is on screen).
C13_RevealPrefixes ==
  [][ \A i \in DOMAIN sends :
        LET c == sends[i]
            S == c.response
            k == c.assistantMessageIndex
        IN /\ ( mounted /\ c.status = "ok" /\ Stepped(i) )
                => IF S = <<>>
                     THEN /\ sends' = RemoveAt(sends, i)
                          /\ messages'[k].content = <<>>
                     ELSE /\ sends'[i].status = "streaming"
                          /\ sends'[i].shown = 0
                          /\ messages'[k].content = <<>>
           /\ ( mounted /\ c.status = "streaming" /\ Stepped(i) )
                => /\ c.shown < Len(S)
                   /\ messages'[k].content = SubSeq(S, 1, c.shown + 1)
                   /\ Len(messages'[k].content) = Len(messages[k].content) + 1
                   /\ IF c.shown + 1 = Len(S)
                        THEN sends' = RemoveAt(sends, i) /\ messages'[k].content = S
                        ELSE sends'[i].status = "streaming" /\ sends'[i].shown = c.shown + 1
    ]_vars

C13_Witness ==
  /\ mounted
  /\ IsAfter("sendMessage", "resolved")
  /\ lastCall.value = <<"O", "p">>
  /\ messages[lastCall.id].content = <<"O", "p">>
  /\ sends = <<>>

\* the three phases of an assistant message
Awaiting(m) == m.content = <<>> /\ m.isLoadingDots /\ ~m.isStreaming
Revealing(m) == ~m.isLoadingDots /\ m.isStreaming
Done(m) == ~m.isLoadingDots /\ ~m.isStreaming
IsPrefix(s, t) == Len(s) <= Len(t) /\ SubSeq(t, 1, Len(s)) = s

\* C14: an assistant message is created awaiting, is always in one of the
\* three phases with the loading and streaming flags never both set, and
\* changes only by a step of the send that owns it: awaiting to revealing
\* with empty content (or straight to done when the response is empty),
\* revealing by one more character of the response, to done exactly when
\* the content equals the response; a done message never changes.  A failed
\* request takes the message from awaiting to the error text (C15).
C14_MessageLifecycle ==
  [][ /\ DOMAIN messages \subseteq DOMAIN messages'
      /\ \A k \in DOMAIN messages' :
           messages'[k].role = "assistant"
           => /\ Awaiting(messages'[k]) \/ Revealing(messages'[k]) \/ Done(messages'[k])
              /\ ~(messages'[k].isLoadingDots /\ messages'[k].isStreaming)
              /\ k \notin DOMAIN messages => Awaiting(messages'[k])
      /\ \A k \in DOMAIN messages :
           ( messages[k].role = "assistant" /\ messages'[k] # messages[k] )
           => \E i \in DOMAIN sends :
                LET S == sends[i].response
                    m == messages[k]
                    n == messages'[k]
                IN /\ sends[i].assistantMessageIndex = k
                   /\ Stepped(i)
                   /\ n.role = "assistant"
                   /\ IF sends[i].status = "failed"
                        THEN Awaiting(m) /\ Done(n)
                             /\ n.content = errorContent(sends[i].currentLanguage)
                        ELSE IF Awaiting(m)
                        THEN /\ sends[i].status = "ok"
                             /\ n.content = <<>>
                             /\ IF S = <<>> THEN Done(n) ELSE Revealing(n)
                        ELSE /\ Revealing(m)
                             /\ IsPrefix(m.content, n.content)
                             /\ Len(n.content) = Len(m.content) + 1
                             /\ IsPrefix(n.content, S)
                             /\ IF n.content = S THEN Done(n) ELSE Revealing(n)
    ]_vars

C14_Witness ==
  /\ Len(messages) = 4
  /\ Done(messages[2])
  /\ messages[2].content = <<"O", "p">>
  /\ Awaiting(messages[4])
  /\ Len(sends) = 1

\* C15: the step that handles a failed chat request finds the assistant
\* message still awaiting and replaces it by the static error text with
\* both flags clear (while the chat is on screen); the send ends there, so
\* no reveal runs for it, and a message holding the error text is never
\* written again.
C15_FailedRequestNoReveal ==
  [][ /\ \A i \in DOMAIN sends :
           ( sends[i].status = "failed" /\ Stepped(i) )
           => LET k == sends[i].assistantMessageIndex
              IN /\ Awaiting(messages[k])
                 /\ sends' = RemoveAt(sends, i)
                 /\ mounted => messages'[k] = Message("assistant", errorContent(sends[i].currentLanguage),
                                            FALSE, FALSE)
                 /\ \A j \in DOMAIN messages : j # k => messages'[j] = messages[j]
      /\ \A k \in DOMAIN messages :
           ( messages[k].role = "assistant"
             /\ messages[k].content \in { errorContent("en"), errorContent("zh-TW") } )
           => messages'[k] = messages[k]
    ]_vars

C15_Witness ==
  /\ mounted
  /\ IsAfter("sendMessage", "caught")
  /\ messages[lastCall.id] = Message("assistant", errorContent("en"), FALSE, FALSE)
  /\ sends = <<>>
  /\ ~chatIsLoading

\* C16: once the chat view is torn down, a reveal in progress takes no
\* further turn of its loop.
C16_RevealCancellable ==
  [][ \A i \in DOMAIN sends :
        ( ~mounted /\ sends[i].status = "streaming" ) => ~Stepped(i)
    ]_vars

\* C17: while a message is revealing, Enter still submits a new query, and
\* the submission leaves every message and every running reveal as it was;
\* a turn of one reveal adds one character to its own message and touches
\* no other message and no other reveal, however the turns interleave.
C17_RevealsIndependent ==
  [][ /\ ( mounted /\ ops > 0 /\ Truthy(trim(input))
            /\ \E i \in DOMAIN sends : sends[i].status = "streaming" )
          => ENABLED handleKeyDown("Enter", FALSE)
      /\ ( UserGesture /\ lastCall'.op = "sendMessage" /\ lastCall'.result = "pending" )
          => /\ SubSeq(messages', 1, Len(messages)) = messages
             /\ SubSeq(sends', 1, Len(sends)) = sends
             /\ Len(sends') = Len(sends) + 1
      /\ \A i \in DOMAIN sends :
           ( mounted /\ sends[i].status = "streaming" /\ Stepped(i) )
           => LET k == sends[i].assistantMessageIndex
              IN /\ Len(messages'[k].content) = Len(messages[k].content) + 1
                 /\ IsPrefix(messages[k].content, messages'[k].content)
                 /\ \A j \in DOMAIN messages : j # k => messages'[j] = messages[j]
                 /\ \A j \in DOMAIN sends :
                      j # i => \E h \in DOMAIN sends' : sends'[h] = sends[j]
    ]_vars

\* two reveals run at once and the later message is ahead of the earlier
C17_Witness ==
  /\ mounted
  /\ Len(sends) = 2
  /\ sends[1].status = "streaming" /\ sends[2].status = "streaming"
  /\ Revealing(messages[2]) /\ messages[2].content = <<>>
  /\ Revealing(messages[4]) /\ messages[4].content = <<"O">>

C19_NotFoundRemovesRow ==
  [][ \A i \in DOMAIN inflight :
        ( /\ inflight[i].method = "PATCH"
          /\ inflight[i].status = "failed" /\ Settled(i)
          /\ ~HasId(restaurant_details, inflight[i].id) )
        => /\ toast'.variant = "destructive"
           /\ ~HasId(restaurantDetails', inflight[i].id)
    ]_vars

\* C20: a change of the input of a cell sets the pending value of that cell
\* to the text given and leaves everything else as it was: the pending
\* values of the other cells, the editing and loading marks, the
\* collection, the store, the draft and the outstanding requests; every
\* text, the empty one included, is accepted while the input is enabled.
C20_ChangeValueFrame ==
  [][ \A id \in Ids, field \in Fields :
        /\ Called("handleCellChange", id, field)
             => /\ cellValues'[<<id, field>>] = lastCall'.value
                /\ \A key \in CellKeys :
                     key # <<id, field>> => cellValues'[key] = cellValues[key]
                /\ UNCHANGED << editingCells, loadingCells, restaurantDetails,
                                restaurant_details, inflight, newRow, isAddingRow, toast >>
        /\ ( TableShown /\ ops > 0 /\ HasId(restaurantDetails, id)
              /\ <<id, field>> \in editingCells \ loadingCells )
             => \A v \in TypedValues : ENABLED handleCellChange(id, field, v)
    ]_vars

C20_Witness ==
  /\ IsAfter("handleCellChange", "done")
  /\ lastCall.value = <<" ">>
  /\ cellValues[LastKey] = <<" ">>
  /\ \A key \in CellKeys :
       key # LastKey => cellValues[key] = initialValues(SeedRows)[key]
  /\ editingCells = {LastKey}
  /\ restaurantDetails = SeedRows
  /\ inflight = <<>>

\* C21: startEditing marks the cell as editing and changes nothing else: no
\* request, no change of any pending value, of the loading marks, of the
\* collection or of the store; applying its update once more to the state
\* it produced gives that state again.
C21_BeginEditIdempotent ==
  [][ \A id \in Ids, field \in Fields :
        Called("startEditing", id, field)
        => /\ <<id, field>> \in editingCells'
           /\ editingCells' \ {<<id, field>>} = editingCells \ {<<id, field>>}
           /\ addEditing(editingCells', getCellKey(id, field)) = editingCells'
           /\ UNCHANGED << cellValues, loadingCells, restaurantDetails, restaurant_details,
                           inflight, newRow, isAddingRow, toast >>
    ]_vars

C21_Witness ==
  /\ IsAfter("startEditing", "done")
  /\ LastKey \in editingCells
  /\ Cardinality(editingCells) = 2
  /\ cellValues = initialValues(SeedRows)
  /\ restaurantDetails = SeedRows
  /\ inflight = <<>>

\* C22: the load happens once; after it, the in-memory collection changes
\* only in the step that receives the ok answer of one request, and then by
\* that request alone: the created row put in front, the updated row put in
\* place of its record, the deleted record taken out.  It is never replaced
\* by the rows of the store.
C22_ListOnlyOnInitialLoad ==
  [][ /\ ~isLoading => ~isLoading'
      /\ ( ~isLoading /\ restaurantDetails' # restaurantDetails )
          => \E i \in DOMAIN inflight :
               LET r == inflight[i]
               IN /\ Settled(i)
                  /\ r.status = "ok"
                  /\ r.method = "POST"
                       => restaurantDetails' = <<r.data>> \o restaurantDetails
                  /\ r.method = "PATCH"
                       => restaurantDetails' =
                            [ k \in DOMAIN restaurantDetails |->
                                IF restaurantDetails[k].id = r.id THEN r.data
                                ELSE restaurantDetails[k] ]
                  /\ r.method = "DELETE"
                       => restaurantDetails' =
                            SelectSeq(restaurantDetails, LAMBDA item : item.id # r.id)
    ]_vars

\* a delete was applied to the cache while the store already lost both rows
C22_Witness ==
  /\ ~isLoading
  /\ IsAfter("onDelete", "resolved")
  /\ restaurant_details = <<>>
  /\ Len(restaurantDetails) = 1
  /\ Len(inflight) = 1

\* the calls to a collaborator that wait for their answer
Outstanding(calls) == { i \in DOMAIN calls : calls[i].status = "sent" }

\* C23: a call to a collaborator is issued only by a step that handles a
\* user gesture, one call at most per gesture; no other step, the handling
\* of a failure included, issues a call or puts one back to waiting.
C23_NoAutomaticRetry ==
  [][ /\ UserGesture
          => /\ Len(inflight') + Len(sends') <= Len(inflight) + Len(sends) + 1
             /\ SubSeq(inflight', 1, Len(inflight)) = inflight
             /\ SubSeq(sends', 1, Len(sends)) = sends
      /\ ~UserGesture
          => /\ Len(inflight') <= Len(inflight)
             /\ Len(sends') <= Len(sends)
             /\ Cardinality(Outstanding(inflight')) <= Cardinality(Outstanding(inflight))
             /\ Cardinality(Outstanding(sends')) <= Cardinality(Outstanding(sends))
    ]_vars

\* a commit and a chat send have both failed and been handled; nothing waits
C23_Witness ==
  /\ IsAfter("sendMessage", "caught") \/ IsAfter("saveCellValue", "caught")
  /\ toast.description = "Failed to update"
  /\ \E k \in DOMAIN messages : messages[k].content = errorContent(language)
  /\ inflight = <<>>
  /\ sends = <<>>

\* C24: cancelNewRow empties every field of the draft, leaves add mode and
\* changes nothing else (no request, collection, store and cells as they
\* were); a draft that is not shown is empty, so beginAddRow starts from the
\* empty draft.
C24_CancelAddRowDiscards ==
  [][ /\ ( UserGesture /\ lastCall'.op = "cancelNewRow" )
          => /\ \A f \in Fields : newRow'[f] = EmptyStr
             /\ ~isAddingRow'
             /\ UNCHANGED << inflight, restaurantDetails, restaurant_details,
                             editingCells, cellValues, loadingCells >>
      /\ ~isAddingRow' => newRow' = EmptyDraft
      /\ ( UserGesture /\ lastCall'.op = "beginAddRow" )
          => isAddingRow' /\ newRow' = EmptyDraft
    ]_vars

\* a draft with a typed value was cancelled
C24_Witness ==
  /\ IsAfter("cancelNewRow", "done")
  /\ lastCall.value = <<" ", "b", " ">>
  /\ newRow = EmptyDraft
  /\ ~isAddingRow
  /\ restaurantDetails = SeedRows
  /\ ops > 0

\* C25: registration requires the admin code. A sign-up call is issued only by a
\* submission whose admin code is "123456", whose password equals its
\* confirmation and has at least 6 characters; a rejected submission sets an
\* error, issues nothing and leaves the form not loading.
RegisterValid ==
  adminCode = "123456" /\ password = confirmPassword /\ Len(password) >= 6

C25_RegistrationRequiresAdminCode ==
  [][ /\ signUps' # signUps /\ Len(signUps') > Len(signUps)
        => /\ RegisterValid
           /\ lastCall'.op = "registerSubmit"
           /\ signUps' = Append(signUps, [ password |-> password, status |-> "sent" ])
      /\ (UserGesture /\ lastCall'.op = "registerSubmit" /\ ~RegisterValid)
        => /\ signUps' = signUps
           /\ error' # ""
           /\ ~registerIsLoading' ]_vars

\* a submission was rejected although a wrong code was its only fault
C25_Witness ==
  /\ lastCall.op = "registerSubmit" /\ lastCall.result = "invalidCode"
  /\ password = confirmPassword /\ Len(password) >= 6 /\ adminCode = "12345"
  /\ signUps = <<>> /\ error # "" /\ ~registerIsLoading

\* C26: the field-update route handler hands a field name to the store only
\* if it is in the whitelist of the table (details, description): a PATCH
\* request that names another field, or lacks id, field or value, is answered
\* with status 400 (and no other request is), fails for the client and leaves
\* the store as it is; a PATCH that changes the store changes the named,
\* whitelisted field of the named record and nothing else.
Whitelist == { "details", "description" }

BadRequest(r) ==
  r.id = 0 \/ r.field = "" \/ r.value = undefined \/ r.field \notin Whitelist

Answered(i) ==
  /\ i \in DOMAIN inflight' /\ Len(inflight') = Len(inflight)
  /\ inflight[i].status = "sent" /\ inflight'[i].status # "sent"

C26_WhitelistedFieldsOnly ==
  [][ \A i \in DOMAIN inflight :
        (Answered(i) /\ inflight[i].method = "PATCH") =>
          LET r == inflight[i]
          IN /\ \A storeError \in BOOLEAN : BadRequest(r) <=> PATCHStatus(r, storeError) = 400
             /\ BadRequest(r) =>
                  /\ inflight'[i].status = "failed"
                  /\ restaurant_details' = restaurant_details
             /\ restaurant_details' # restaurant_details =>
                  /\ r.field \in Whitelist
                  /\ Len(restaurant_details') = Len(restaurant_details)
                  /\ \A k \in DOMAIN restaurant_details :
                       /\ restaurant_details'[k].id = restaurant_details[k].id
                       /\ \A f \in Fields :
                            restaurant_details'[k][f] # restaurant_details[k][f]
                              => restaurant_details[k].id = r.id /\ f = r.field ]_vars

\* a PATCH naming the column id of an existing record was answered with 400
C26_Witness ==
  /\ Len(inflight) = 1
  /\ inflight[1].method = "PATCH" /\ inflight[1].field = "id"
  /\ HasId(restaurant_details, inflight[1].id) /\ inflight[1].value = <<" ", "b", " ">>
  /\ PATCHStatus(inflight[1], FALSE) = 400 /\ inflight[1].status = "failed"
  /\ restaurant_details = SeedRows

\* C27: the search-index sync is independent of per-cell persistence: a sync
\* request is issued by the manual save action only (never by a commit, a
\* confirmed add or a delete), and neither issuing a sync nor its answer,
\* success or failure, changes the in-memory collection or the edit state of
\* any cell (editing flag, pending value, loading flag) or the draft.
SyncStep == lastCall'.op = "handleSaveChanges" /\ (UserGesture \/ syncs' # syncs)

C27_SyncIndependent ==
  [][ /\ syncs' # syncs /\ Len(syncs') > Len(syncs)
        => UserGesture /\ lastCall'.op = "handleSaveChanges" /\ inflight' = inflight
      /\ SyncStep
        => UNCHANGED << restaurantDetails, editingCells, cellValues, loadingCells, draftVars >> ]_vars

\* C28: edits to different cells are independent: while a cell is being
\* edited with a pending value other than its authoritative value, a
\* successful commit of another cell, a successful add, or a successful
\* delete of another record leaves that cell's pending value and its editing
\* flag as they were.
Authoritative(key) == initialValues(restaurantDetails)[key]

OtherCellSucceeded(key) ==
  /\ \E i \in DOMAIN inflight : Settled(i)
  /\ lastCall'.result = "resolved"
  /\ \/ lastCall'.op = "saveCellValue" /\ <<lastCall'.id, lastCall'.field>> # key
     \/ lastCall'.op = "addNewRow"
     \/ lastCall'.op = "onDelete" /\ lastCall'.id # key[1]

C28_EditsIndependent ==
  [][ \A key \in CellKeys :
        ( /\ key \in editingCells
          /\ cellValues[key] # Authoritative(key)
          /\ OtherCellSucceeded(key) )
        => /\ cellValues'[key] = cellValues[key]
           /\ key \in editingCells' ]_vars

\* C29: the in-memory collection stays a faithful cache of the store: when
\* two updates to different fields of one record were in flight at once and
\* both succeeded, then once the second answer has been applied (whichever
\* came first) every field of the in-memory record equals the store's value.
SecondAnswerApplied ==
  /\ \E i \in DOMAIN inflight : Settled(i)
  /\ inflight' = <<>>
  /\ lastCall.op = "saveCellValue" /\ lastCall.result = "resolved"
  /\ lastCall'.op = "saveCellValue" /\ lastCall'.result = "resolved"
  /\ lastCall'.id = lastCall.id /\ lastCall'.field # lastCall.field

C29_FaithfulCache ==
  [][ SecondAnswerApplied =>
        find(restaurantDetails', lastCall'.id) = find(restaurant_details', lastCall'.id) ]_vars

\* C30: a cancelled draft has no further effect: when a create issued from
\* a draft succeeds after cancelAddRow was invoked (the last handler that ran
\* is the cancel, or the Add button that opened a newer draft after it), no
\* record is added to the in-memory collection and the newer draft keeps its
\* field values and its add mode.
CreateSucceeds ==
  /\ \E i \in DOMAIN inflight : Settled(i)
  /\ lastCall'.op = "addNewRow" /\ lastCall'.result = "resolved"

C30_CancelledDraftInert ==
  [][ (CreateSucceeds /\ lastCall.op \in { "cancelNewRow", "beginAddRow" })
        => /\ restaurantDetails' = restaurantDetails
           /\ newRow' = newRow
           /\ isAddingRow' = isAddingRow ]_vars

\* C31: one draft produces at most one record: when the confirm button is
\* pressed again on the same valid draft while the create of the first press
\* has not resolved (the first press is still the last handler that ran), no
\* further create call is issued.
C31_OneDraftOneCreate ==
  [][ ( /\ lastCall.op = "addNewRow" /\ lastCall.result = "pending"
        /\ UserGesture /\ lastCall'.op = "addNewRow" )
        => inflight' = inflight ]_vars

\* C32: a deleted record never reappears. An id enters the in-memory
\* collection only with the initial load or with the answer of the create
\* that made it, which is consumed by that step and is the only answer
\* carrying that id; never with the answer of an update, also when that
\* answer arrives after the record was deleted. After a successful delete
\* the id is not listed, and no id is ever listed twice.
Enters(id) == id \in IdsOf(restaurantDetails') /\ id \notin IdsOf(restaurantDetails)

CreatedBy(i, id) ==
  inflight[i].method = "POST" /\ inflight[i].status = "ok" /\ inflight[i].data.id = id

C32_DeletedNeverReappears ==
  [][ /\ \A id \in Ids :
           Enters(id) =>
             \/ lastCall'.op = "checkAuth"
             \/ /\ lastCall'.op = "addNewRow" /\ lastCall'.result = "resolved"
                /\ id \notin IdsOf(SeedRows)
                /\ \E i \in DOMAIN inflight :
                     /\ Settled(i) /\ CreatedBy(i, id)
                     /\ \A j \in DOMAIN inflight \ {i} : ~CreatedBy(j, id)
      /\ (lastCall'.op = "onDelete" /\ lastCall'.result = "resolved")
           => lastCall'.id \notin IdsOf(restaurantDetails')
      /\ Cardinality(IdsOf(restaurantDetails')) = Len(restaurantDetails') ]_vars

\* the answer of an update was applied after the record had been deleted
C32_Witness ==
  /\ IsAfter("saveCellValue", "resolved")
  /\ ~HasId(restaurantDetails, lastCall.id)
  /\ ~HasId(restaurant_details, lastCall.id)

\* C33: the unsynced-changes flag is false when the initial load has
\* completed and becomes true only in a step in which a successful add,
\* update or delete is applied to the in-memory collection; so no sync
\* request is issued while nothing has been modified since the load.
Modified ==
  /\ \E i \in DOMAIN inflight : Settled(i)
  /\ lastCall'.op \in { "saveCellValue", "addNewRow", "onDelete" }
  /\ lastCall'.result = "resolved"

C33_NoChangesAfterLoad ==
  [][ /\ (lastCall'.op = "checkAuth" /\ lastCall' # lastCall) => ~hasChanges'
      /\ (hasChanges' /\ ~hasChanges) => Modified
      /\ (syncs' # syncs /\ Len(syncs') > Len(syncs)) => lastCall.op # "checkAuth" ]_vars

\* C34: no unsynced change is forgotten: when a successful add, update or
\* delete was applied to the in-memory collection after a sync request was
\* sent (it is the last handler step before the answer of the sync), then
\* hasChanges is true after the sync has resolved.
SyncResolves ==
  /\ lastCall'.op = "handleSaveChanges"
  /\ Len(syncs') = Len(syncs) /\ syncs' # syncs

C34_NoChangeForgotten ==
  [][ ( /\ SyncResolves
        /\ lastCall.op \in { "saveCellValue", "addNewRow", "onDelete" }
        /\ lastCall.result = "resolved" )
        => hasChanges' ]_vars

\* C35: at most one sync request is in flight at any time and none is issued
\* while hasChanges is false; hasChanges goes from true to false only with
\* the answer of a sync that reports success, and a failed sync leaves
\* hasChanges true.
SyncsInFlight(q) == { i \in DOMAIN q : q[i].status = "sent" }

C35_OneSyncAtATime ==
  [][ /\ Cardinality(SyncsInFlight(syncs')) <= 1
      /\ Len(syncs') > Len(syncs) => hasChanges /\ SyncsInFlight(syncs) = {}
      /\ (hasChanges /\ ~hasChanges') => SyncResolves /\ lastCall'.result = "success"
      /\ (SyncResolves /\ lastCall'.result = "error") => hasChanges' ]_vars

\* a sync failed and the flag is still set
C35_Witness ==
  /\ IsAfter("handleSaveChanges", "error")
  /\ Len(syncs) = 1 /\ syncs[1].status = "error"
  /\ hasChanges /\ ~isSaving

\* C36: the chat loading flag is accurate: while the chat is on screen,
\* isLoading is true whenever a call of sendMessage has not finished its
\* request or its reveal, and no query is sent, by the button or by the
\* Enter key, while isLoading is true.
C36_LoadingFlagAccurate ==
  [][ /\ (mounted' /\ sends' # <<>>) => chatIsLoading'
      /\ Len(sends') > Len(sends) => ~chatIsLoading ]_vars

\* C37: the chat log is append-only and each send writes to its own slot. A
\* query that is not blank appends its user message and, right after it, one
\* assistant message; a blank query appends nothing and sends nothing; no
\* step removes or reorders messages or changes a user message; and a step
\* of one send (answer, reveal turn, error) changes at most the assistant
\* message that this send appended, however concurrent sends interleave.
SendsQuery == UserGesture /\ lastCall'.op = "sendMessage"

C37_AppendOnlyOwnSlot ==
  [][ /\ (SendsQuery /\ Truthy(trim(lastCall'.value)))
          => /\ messages' = messages \o << Message("user", lastCall'.value, FALSE, FALSE),
                                           Message("assistant", EmptyStr, TRUE, FALSE) >>
             /\ Len(sends') = Len(sends) + 1
             /\ sends'[Len(sends')].assistantMessageIndex = Len(messages')
      /\ (SendsQuery /\ ~Truthy(trim(lastCall'.value)))
          => messages' = messages /\ sends' = sends
      /\ Len(messages') >= Len(messages)
      /\ \A j \in DOMAIN messages :
           /\ messages'[j].role = messages[j].role
           /\ messages[j].role = "user" => messages'[j] = messages[j]
      /\ \A i \in DOMAIN sends :
           Stepped(i) =>
             /\ Len(messages') = Len(messages)
             /\ \A j \in DOMAIN messages :
                  j # sends[i].assistantMessageIndex => messages'[j] = messages[j] ]_vars

\* two sends ran at once; the later one has failed and shows its error in
\* slot 4, the earlier one is still revealing in slot 2
C37_Witness ==
  /\ mounted
  /\ Len(messages) = 4 /\ Len(sends) = 1
  /\ sends[1].assistantMessageIndex = 2 /\ sends[1].status = "streaming"
  /\ messages[1].role = "user" /\ messages[3].role = "user"
  /\ messages[4].content = errorContent("en")
  /\ IsAfter("sendMessage", "caught")

\* C38: busy flags are always released, given that every request is answered
\* in the end: a cell that is saving eventually is not saving, isSaving
\* eventually is false again, and while the chat stays on screen isLoading
\* eventually is false again and every assistant message eventually has its
\* loading and its streaming flag cleared.
\* a send needs a typed query before it: two gestures for two messages
MaxMessages == 2 * (MaxOps \div 2)

Busy(k) ==
  k \in DOMAIN messages /\ (messages[k].isLoadingDots \/ messages[k].isStreaming)

C38_BusyFlagsReleased ==
  /\ \A key \in CellKeys : (key \in loadingCells) ~> (key \notin loadingCells)
  /\ isSaving ~> ~isSaving
  /\ (mounted /\ chatIsLoading) ~> (~mounted \/ ~chatIsLoading)
  /\ \A k \in 1..MaxMessages : (mounted /\ Busy(k)) ~> (~mounted \/ ~Busy(k))

\* a cell is saving and a chat send is waiting at the same time
C38_Witness ==
  /\ loadingCells # {} /\ mounted /\ chatIsLoading /\ Busy(2)

\* C39: records are read and changed only on behalf of an authenticated
\* session: a list, create, update or delete that the store carries out
\* (the route answers ok) comes from a caller that holds a session, and a
\* request of a caller without one leaves the table as it is.
C39_AuthenticatedOnly ==
  [][ \A i \in DOMAIN inflight :
        Answered(i) =>
          /\ inflight'[i].status = "ok" => inflight[i].session
          /\ ~inflight[i].session => restaurant_details' = restaurant_details ]_vars

====
